---- MODULE Spec2Model ----
(***************************************************************************)
(* A model of yamldb's YamlDB class (src/yamldb/YamlDB.py): a nested       *)
(* dict kept in memory, addressed by dotted keys, and saved to a YAML      *)
(* file.                                                                   *)
(*                                                                         *)
(* Python values are records [t |-> tag, v |-> payload]:                   *)
(*   "dict"  v is a function from keys (strings) to values                 *)
(*   "str"   v is the string, a sequence of one-character strings          *)
(*   "bool"  v is TRUE or FALSE                                            *)
(*   "int"   v is the number                                               *)
(*   "list"  v is a sequence of values                                     *)
(*   "none"  None                                                          *)
(* Python strings (keys and string values) are sequences of characters so  *)
(* that str.split, the "in" test and str.lower are computed, not assumed.  *)
(* The insertion order of a dict is not modelled: no operation modelled    *)
(* here reads it other than to enumerate all items.                        *)
(***************************************************************************)
EXTENDS Integers, Sequences, FiniteSets, Bags, TLC

VARIABLES
    pc,        \* "new": not constructed; "open": constructed; "failed": __init__ raised
    data,      \* self.data
    backend,   \* self.backend
    file,      \* the content of the file at self.filename, or NoFile
    op,        \* the last call: its name, arguments, return value and exception
    prev,      \* self.data when the last call was made
    prevFile,  \* the file when the last call was made
    steps      \* number of calls made on the constructed store

vars == <<pc, data, backend, file, op, prev, prevFile, steps>>

\* The number of calls made on one store in a run.
MaxOps == 2

-----------------------------------------------------------------------------
(* Python values *)

None == [t |-> "none", v |-> 0]
Bool(b) == [t |-> "bool", v |-> b]
Num(n) == [t |-> "int", v |-> n]
Str(s) == [t |-> "str", v |-> s]
List(xs) == [t |-> "list", v |-> xs]
Dict(f) == [t |-> "dict", v |-> f]
EmptyDict == Dict([k \in {} |-> None])

IsDict(x) == x.t = "dict"
IsStr(x) == x.t = "str"

\* key in d, d[key], d[key] = x, del d[key] for a dict d
Has(d, key) == key \in DOMAIN d.v
Item(d, key) == d.v[key]
SetItem(d, key, x) ==
    Dict([k \in (DOMAIN d.v) \cup {key} |-> IF k = key THEN x ELSE d.v[k]])
DelItem(d, key) == Dict([k \in (DOMAIN d.v) \ {key} |-> d.v[k]])

-----------------------------------------------------------------------------
(* Python strings *)

UpperLetters == <<"A","B","C","D","E","F","G","H","I","J","K","L","M",
                  "N","O","P","Q","R","S","T","U","V","W","X","Y","Z">>
LowerLetters == <<"a","b","c","d","e","f","g","h","i","j","k","l","m",
                  "n","o","p","q","r","s","t","u","v","w","x","y","z">>

LowerChar(c) ==
    IF \E i \in DOMAIN UpperLetters : UpperLetters[i] = c
    THEN LowerLetters[CHOOSE i \in DOMAIN UpperLetters : UpperLetters[i] = c]
    ELSE c

\* str.lower()
Lower(s) == [i \in DOMAIN s |-> LowerChar(s[i])]

\* "." in s
HasDot(s) == \E i \in DOMAIN s : s[i] = "."

\* s.split(".")
RECURSIVE Split(_)
Split(s) ==
    IF ~HasDot(s)
    THEN <<s>>
    ELSE LET i == CHOOSE j \in DOMAIN s :
                      s[j] = "." /\ \A h \in 1..(j - 1) : s[h] # "."
         IN  <<SubSeq(s, 1, i - 1)>> \o Split(SubSeq(s, i + 1, Len(s)))

\* f"{parent}.{key}"
Qualify(parent, key) == parent \o <<".">> \o key

-----------------------------------------------------------------------------
(* The file system *)

NoFile == [t |-> "nofile", v |-> 0]
\* A file of no content: yaml.safe_load gives None for it.
EmptyFile == [t |-> "text", v |-> None]

\* yaml.dump(self.data, stream): the text written is modelled by the value it denotes.
Dump(d) == [t |-> "text", v |-> d]

\* bool(x) of a Python value
Truthy(x) ==
    CASE x.t = "none" -> FALSE
      [] x.t = "bool" -> x.v
      [] x.t = "int"  -> x.v # 0
      [] x.t = "str"  -> Len(x.v) > 0
      [] x.t = "list" -> Len(x.v) > 0
      [] x.t = "dict" -> DOMAIN x.v # {}

\* yaml.safe_load(dbfile) or dict()
SafeLoadOrDict(f) == IF Truthy(f.v) THEN f.v ELSE EmptyDict

\* save(): open(name, "w") and yaml.dump
Save(d) == Dump(d)

\* flush(): save only with the file backend
Flush(d, f, b) == IF b = ":file:" THEN Save(d) ELSE f

-----------------------------------------------------------------------------
(* The methods of YamlDB.  Each is an operator from the store (d: self.data,
   f: the file, b: self.backend) and the arguments to the outcome of the call:
   the store afterwards, the value returned and the exception raised. *)

Outcome(d, f, r, e) == [data |-> d, file |-> f, ret |-> r, exc |-> e]

\* A variant of Coerce: the value is compared without lower().
CoerceExactCase(value) ==
    IF IsStr(value) /\ value.v \in {<<"t","r","u","e">>, <<"f","a","l","s","e">>}
    THEN Bool(value.v = <<"t","r","u","e">>)
    ELSE value

\* set(): a string whose lower() is 'true' or 'false' becomes a bool; anything
\* else (value.lower() raising included) is left as it is.
Coerce(value) ==
    IF IsStr(value) /\ Lower(value.v) \in {<<"t","r","u","e">>, <<"f","a","l","s","e">>}
    THEN Bool(Lower(value.v) = <<"t","r","u","e">>)
    ELSE value

\* A variant of SetPath: a parent that is there and is no dict is replaced by
\* an empty dict instead of raising.
RECURSIVE SetPathOverwriting(_, _, _)
SetPathOverwriting(location, keys, value) ==
    IF ~IsDict(location)
    THEN [v |-> location, err |-> TRUE]
    ELSE IF Len(keys) = 1
    THEN [v |-> SetItem(location, keys[1], value), err |-> FALSE]
    ELSE LET parent == keys[1]
             created == IF ~Has(location, parent) \/ ~IsDict(Item(location, parent))
                        THEN SetItem(location, parent, EmptyDict)
                        ELSE location
             below == SetPathOverwriting(Item(created, parent), Tail(keys), value)
         IN  [v |-> SetItem(created, parent, below.v), err |-> below.err]

\* A variant of SetPath: every parent is assigned a new empty dict, whether
\* it is there or not.
RECURSIVE SetPathFresh(_, _, _)
SetPathFresh(location, keys, value) ==
    IF ~IsDict(location)
    THEN [v |-> location, err |-> TRUE]
    ELSE IF Len(keys) = 1
    THEN [v |-> SetItem(location, keys[1], value), err |-> FALSE]
    ELSE LET parent == keys[1]
             created == SetItem(location, parent, EmptyDict)
             below == SetPathFresh(Item(created, parent), Tail(keys), value)
         IN  [v |-> SetItem(created, parent, below.v), err |-> below.err]

\* set(), the branch of a dotted key: the loop over the parents and the final
\* assignment, on location.  A location that is not a dict raises TypeError
\* at "parent not in location", at the subscript or at the assignment
\* (str, int, bool, None and list alike), which set() turns into ValueError;
\* what was assigned before stays assigned.
RECURSIVE SetPath(_, _, _)
SetPath(location, keys, value) ==
    IF ~IsDict(location)
    THEN [v |-> location, err |-> TRUE]
    ELSE IF Len(keys) = 1
    THEN [v |-> SetItem(location, keys[1], value), err |-> FALSE]
    ELSE LET parent == keys[1]
             created == IF ~Has(location, parent)
                        THEN SetItem(location, parent, EmptyDict)
                        ELSE location
             below == SetPath(Item(created, parent), Tail(keys), value)
         IN  [v |-> SetItem(created, parent, below.v), err |-> below.err]

Set(d, f, b, key, value) ==
    LET val == Coerce(value)
        r == IF HasDot(key)
             THEN SetPath(d, Split(key), val)
             ELSE [v |-> SetItem(d, key, val), err |-> FALSE]
    IN  IF r.err
        THEN Outcome(r.v, f, None, "ValueError")
        ELSE Outcome(r.v, Flush(r.v, f, b), None, "none")

\* __getitem__(), the walk over the segments of a dotted key: "KeyError" when
\* a dict lacks the segment, "ValueError" when the element is not a dict
\* (TypeError in the code, re-raised as ValueError).
RECURSIVE Walk(_, _)
Walk(element, keys) ==
    IF Len(keys) = 0
    THEN [v |-> element, exc |-> "none"]
    ELSE IF ~IsDict(element)
    THEN [v |-> None, exc |-> "ValueError"]
    ELSE IF ~Has(element, keys[1])
    THEN [v |-> None, exc |-> "KeyError"]
    ELSE Walk(Item(element, keys[1]), Tail(keys))

GetItem(d, f, b, item) ==
    LET r == IF HasDot(item)
             THEN Walk(d, Split(item))
             ELSE IF Has(d, item)
             THEN [v |-> Item(d, item), exc |-> "none"]
             ELSE [v |-> None, exc |-> "KeyError"]
    IN  Outcome(d, f, r.v, r.exc)

\* A variant of Get: on KeyError the default is returned and not stored.
GetWithoutStore(d, f, b, key, default) ==
    IF Has(d, key) THEN Outcome(d, f, Item(d, key), "none") ELSE Outcome(d, f, default, "none")

\* get(): self.data[key] with the key as given; on KeyError self[key] = default
Get(d, f, b, key, default) ==
    IF Has(d, key)
    THEN Outcome(d, f, Item(d, key), "none")
    ELSE LET s == Set(d, f, b, key, default)
         IN  IF s.exc # "none" THEN s ELSE Outcome(s.data, s.file, default, "none")

\* delete(), the branch of a dotted key: d = d[key] for key in keys[:-1], then
\* del d[key] with key still the last of keys[:-1].  Any exception ends the
\* call, printed and not raised.
RECURSIVE DeleteWalk(_, _, _)
DeleteWalk(d, parents, key) ==
    IF Len(parents) = 0
    THEN IF IsDict(d) /\ Has(d, key) THEN DelItem(d, key) ELSE d
    ELSE IF IsDict(d) /\ Has(d, parents[1])
    THEN SetItem(d, parents[1], DeleteWalk(Item(d, parents[1]), Tail(parents), key))
    ELSE d

\* delete(), the exception raised inside the try block: KeyError for a dict
\* that lacks the key, TypeError for a subscript or del on what is no dict.
RECURSIVE DeleteWalkExc(_, _, _)
DeleteWalkExc(d, parents, key) ==
    IF ~IsDict(d)
    THEN "TypeError"
    ELSE IF Len(parents) = 0
    THEN IF Has(d, key) THEN "none" ELSE "KeyError"
    ELSE IF Has(d, parents[1])
    THEN DeleteWalkExc(Item(d, parents[1]), Tail(parents), key)
    ELSE "KeyError"

DeleteExc(d, item) ==
    IF HasDot(item)
    THEN LET keys == Split(item)
             parents == SubSeq(keys, 1, Len(keys) - 1)
         IN  DeleteWalkExc(d, parents, parents[Len(parents)])
    ELSE IF Has(d, item) THEN "none" ELSE "KeyError"

\* A variant of Swallow: only KeyError is caught.
SwallowKeyErrorOnly(e) == IF e = "KeyError" THEN "none" ELSE e

\* delete(), "except Exception as e: print(e)": what the caller sees of the
\* exception e raised inside the try block.
Swallow(e) == "none"

Delete(d, f, b, item) ==
    LET after == IF HasDot(item)
                 THEN LET keys == Split(item)
                          parents == SubSeq(keys, 1, Len(keys) - 1)
                          key == parents[Len(parents)]
                      IN  DeleteWalk(d, parents, key)
                 ELSE IF Has(d, item) THEN DelItem(d, item) ELSE d
    IN  Outcome(after, f, None, Swallow(DeleteExc(d, item)))

\* A variant of Contains: the probe is get(key), which stores on a miss.
ContainsByGet(d, f, b, key) ==
    LET g == Get(d, f, b, key, None)
    IN  Outcome(g.data, g.file, Bool(GetItem(d, f, b, key).exc = "none"), "none")

\* __contains__(): found unless __getitem__ raises
Contains(d, f, b, key) ==
    LET g == GetItem(d, f, b, key)
    IN  Outcome(g.data, g.file, Bool(g.exc = "none"), "none")

\* A variant of Clear: the flush is left out.
ClearWithoutFlush(d, f, b) == Outcome(EmptyDict, f, None, "none")

\* clear()
Clear(d, f, b) == Outcome(EmptyDict, Flush(EmptyDict, f, b), None, "none")

\* flush() and close()
FlushOp(d, f, b) == Outcome(d, Flush(d, f, b), None, "none")
Close(d, f, b) == FlushOp(d, f, b)

\* get_keys(d, keys_list, parent), the loop over d.items(): what it appends
\* to keys_list, as a bag of strings.
RECURSIVE GetKeysLoop(_, _, _)
GetKeysLoop(d, todo, parent) ==
    IF todo = {}
    THEN EmptyBag
    ELSE LET key == CHOOSE k \in todo : TRUE
             here == IF IsDict(Item(d, key))
                     THEN GetKeysLoop(Item(d, key), DOMAIN Item(d, key).v, key)
                     ELSE SetToBag({Qualify(parent, key)})
         IN  here (+) GetKeysLoop(d, todo \ {key}, parent)

\* keys(): get_keys() starts keys_list with list(self.data.keys()) and parent ""
Keys(d, f, b) ==
    Outcome(d, f,
            [t |-> "keys", v |-> SetToBag(DOMAIN d.v) (+) GetKeysLoop(d, DOMAIN d.v, <<>>)],
            "none")

\* __len__(): evaluates len(self.data) and returns nothing
LenOp(d, f, b) == Outcome(d, f, None, "none")

-----------------------------------------------------------------------------
(* The inputs of the runs *)

a == <<"a">>
bk == <<"b">>
ck == <<"c">>

\* The keys passed to the methods: "a", "b", "a.a", "a.b", "a.b.c" and "".
KeyArgs ==
    { a, bk, Qualify(a, a), Qualify(a, bk), Qualify(Qualify(a, bk), ck), <<>> }

\* The values passed to set(): "x", "True", "FALSE", None and 7.
ValueArgs ==
    { Str(<<"x">>), Str(<<"T","r","u","e">>), Str(<<"F","A","L","S","E">>), None, Num(7) }

\* The defaults passed to get(): None (the default of the parameter), "x" and "True".
DefaultArgs == { None, Str(<<"x">>), Str(<<"T","r","u","e">>) }

D_ab == Dict((a :> Str(<<"x">>)) @@ (bk :> Num(7)))
D_nested == Dict(a :> Dict((a :> Num(1)) @@ (bk :> Str(<<"x">>))))
D_deep == Dict((a :> Dict(bk :> Dict(ck :> Str(<<"x">>)))) @@ (bk :> List(<<Num(1)>>)))
D_dotted == Dict(Qualify(a, bk) :> Num(1))

\* The data argument of the constructor; None is "not given".
DataArgs == { None, EmptyDict, D_nested, D_deep, D_dotted }

\* The backend argument of the constructor.
BackendArgs == { ":file:", ":memory:", ":other:" }

\* What is at filename before the constructor runs.
InitialFiles == { NoFile, EmptyFile, Dump(D_ab) }

\* os.path.dirname(filename): "" for a bare file name ("bare"), a directory
\* that exists ("exists"), one that does not and can be made ("missing"), one
\* that does not and cannot be made ("blocked").  The directory of a file
\* that exists is not missing.
Dirs(f) == IF f = NoFile THEN { "bare", "exists", "missing", "blocked" } ELSE { "bare", "exists" }

-----------------------------------------------------------------------------
(* The state machine *)

\* The record of a call; dir is the state of the directory the constructor found.
Call(name, key, val, out) ==
    [name |-> name, key |-> key, val |-> val, ret |-> out.ret, exc |-> out.exc, dir |-> ""]

NoCall ==
    [name |-> "none", key |-> <<>>, val |-> None, ret |-> None, exc |-> "none", dir |-> ""]

Init ==
    /\ pc = "new"
    /\ data = None
    /\ backend = ""
    /\ file \in InitialFiles
    /\ op = NoCall
    /\ prev = None
    /\ prevFile = file
    /\ steps = 0

\* _create_dir(filename): TRUE when it returns, FALSE when it raises ValueError.
\* os.path.isdir("") is false and os.makedirs("") raises FileNotFoundError.
CreateDirOk(dr) == dr \in {"exists", "missing"}

\* load(filename): the prefix that does not exist is made with os.makedirs,
\* which raises FileNotFoundError for the prefix "" of a bare file name.
LoadOk(dr) == dr # "bare"

\* __init__(data, filename, backend)
InitOutcome(f, dr, dataArg, b) ==
    IF b \notin {":file:", ":memory:"}
    THEN Outcome(None, f, None, "ValueError")
    ELSE IF f # NoFile /\ dataArg # None
    THEN Outcome(dataArg, Save(dataArg), None, "none")
    ELSE IF f # NoFile /\ dataArg = None
    THEN IF LoadOk(dr)
         THEN Outcome(SafeLoadOrDict(f), f, None, "none")
         ELSE Outcome(None, f, None, "FileNotFoundError")
    ELSE IF dataArg # None
    THEN IF CreateDirOk(dr)
         THEN Outcome(dataArg, Save(dataArg), None, "none")
         ELSE Outcome(None, f, None, "ValueError")
    ELSE IF CreateDirOk(dr)
         THEN Outcome(EmptyDict, Save(EmptyDict), None, "none")
         ELSE Outcome(None, f, None, "ValueError")

Construct ==
    /\ pc = "new"
    /\ \E dataArg \in DataArgs, b \in BackendArgs, dr \in Dirs(file) :
          LET out == InitOutcome(file, dr, dataArg, b)
          IN  /\ pc' = IF out.exc = "none" THEN "open" ELSE "failed"
              /\ data' = out.data
              /\ file' = out.file
              /\ backend' = b
              /\ op' = [Call("init", <<>>, dataArg, out) EXCEPT !.dir = dr]
    /\ prev' = data
    /\ prevFile' = file
    /\ steps' = steps

\* A call on the constructed store with the given outcome.  The call is
\* recorded under the name of the method that does the work: an indexed
\* assignment or deletion is recorded as the set() or delete() it calls.
Step(name, key, val, out) ==
    /\ pc = "open"
    /\ steps < MaxOps
    /\ data' = out.data
    /\ file' = out.file
    /\ op' = Call(name, key, val, out)
    /\ prev' = data
    /\ prevFile' = file
    /\ steps' = steps + 1
    /\ UNCHANGED <<pc, backend>>

DoSet == \E k \in KeyArgs, v \in ValueArgs : Step("set", k, v, Set(data, file, backend, k, v))

\* __setitem__(key, value) calls set(key, value)
DoSetItem ==
    \E k \in KeyArgs, v \in ValueArgs : Step("set", k, v, Set(data, file, backend, k, v))

DoGet == \E k \in KeyArgs, v \in DefaultArgs : Step("get", k, v, Get(data, file, backend, k, v))

DoGetItem == \E k \in KeyArgs : Step("getitem", k, None, GetItem(data, file, backend, k))

DoDelete == \E k \in KeyArgs : Step("delete", k, None, Delete(data, file, backend, k))

\* __delitem__(key) calls delete(key)
DoDelItem == \E k \in KeyArgs : Step("delete", k, None, Delete(data, file, backend, k))

DoContains == \E k \in KeyArgs : Step("contains", k, None, Contains(data, file, backend, k))

DoClear == Step("clear", <<>>, None, Clear(data, file, backend))

DoFlush == Step("flush", <<>>, None, FlushOp(data, file, backend))

DoClose == Step("close", <<>>, None, Close(data, file, backend))

DoKeys == Step("keys", <<>>, None, Keys(data, file, backend))

DoLen == Step("len", <<>>, None, LenOp(data, file, backend))

Next ==
    \/ Construct
    \/ DoSet
    \/ DoSetItem
    \/ DoGet
    \/ DoGetItem
    \/ DoDelete
    \/ DoDelItem
    \/ DoContains
    \/ DoClear
    \/ DoFlush
    \/ DoClose
    \/ DoKeys
    \/ DoLen

Spec == Init /\ [][Next]_vars

-----------------------------------------------------------------------------
(* The notions the properties are stated with.  They are defined on the
   document tree alone, independently of the methods above. *)

Missing == [t |-> "missing", v |-> 0]

\* The value the path segs leads to in the tree d, walking mappings only.
RECURSIVE ValueAt(_, _)
ValueAt(d, segs) ==
    IF Len(segs) = 0
    THEN d
    ELSE IF IsDict(d) /\ Has(d, segs[1])
    THEN ValueAt(Item(d, segs[1]), Tail(segs))
    ELSE Missing

\* The path of a dotted key, and whether it resolves in d.
PathOf(key) == Split(key)
Resolves(d, key) == ValueAt(d, PathOf(key)) # Missing
IsLeafAt(d, key) == Resolves(d, key) /\ ~IsDict(ValueAt(d, PathOf(key)))

\* The proper prefixes of the path of key.
ProperPrefixes(key) == { SubSeq(PathOf(key), 1, i) : i \in 1..(Len(PathOf(key)) - 1) }

\* Some proper prefix of key names a value that is there and is no mapping.
BlockedPrefix(d, key) ==
    \E p \in ProperPrefixes(key) : ValueAt(d, p) # Missing /\ ~IsDict(ValueAt(d, p))

\* The tree d without the entry the path segs (which resolves) leads to.
RECURSIVE RemoveAt(_, _)
RemoveAt(d, segs) ==
    IF Len(segs) = 1
    THEN DelItem(d, segs[1])
    ELSE SetItem(d, segs[1], RemoveAt(Item(d, segs[1]), Tail(segs)))

\* The number of leaves (values that are no mapping) of the tree d.
RECURSIVE LeafCount(_, _)
LeafCount(d, todo) ==
    IF todo = {}
    THEN 0
    ELSE LET key == CHOOSE k \in todo : TRUE
             here == IF IsDict(Item(d, key))
                     THEN LeafCount(Item(d, key), DOMAIN Item(d, key).v)
                     ELSE 1
         IN  here + LeafCount(d, todo \ {key})

\* What set(k, v) followed by get(k) is to return: v, or the boolean for a
\* string that reads true or false in any letter case.
RoundTrip(v) ==
    IF IsStr(v) /\ Lower(v.v) = <<"t","r","u","e">> THEN Bool(TRUE)
    ELSE IF IsStr(v) /\ Lower(v.v) = <<"f","a","l","s","e">> THEN Bool(FALSE)
    ELSE v

Returned(name) == pc = "open" /\ op.name = name /\ op.exc = "none"

-----------------------------------------------------------------------------
(* C1 to C10 *)

\* C1: after set(k, v) has succeeded for a non-empty key k, get(k) returns v,
\* or the boolean true/false when v is the string "true"/"false" in any
\* letter case.
C1_SetThenGetReturnsValue ==
    (Returned("set") /\ op.key # <<>>) =>
        \A default \in DefaultArgs :
            LET g == Get(data, file, backend, op.key, default)
            IN  g.exc = "none" /\ g.ret = RoundTrip(op.val)

\* C2: when the path of key resolves in the document, get(key, default)
\* returns the value stored there and leaves the document unchanged.
C2_GetHitReadsThePath ==
    (pc = "open" /\ op.name = "get" /\ Resolves(prev, op.key)) =>
        /\ op.exc = "none"
        /\ op.ret = ValueAt(prev, PathOf(op.key))
        /\ data = prev

\* C3: delete(k) of a key whose path resolves to a leaf removes exactly the
\* entry of the final segment from its parent mapping: afterwards contains(k)
\* is false and every other key has the value it had.
C3_DeleteRemovesExactlyTheLeaf ==
    (pc = "open" /\ op.name = "delete" /\ IsLeafAt(prev, op.key)) =>
        /\ Contains(data, file, backend, op.key).ret = Bool(FALSE)
        /\ data = RemoveAt(prev, PathOf(op.key))

\* C4: delete(k) of a key whose path does not resolve leaves the document as
\* it was.
C4_DeleteAbsentIsNoOp ==
    (pc = "open" /\ op.name = "delete" /\ ~Resolves(prev, op.key)) => data = prev

\* C5: with the file backend, when set, get on a miss, delete or clear has
\* returned, the file holds the serialization of the document.
C5_FileFollowsEveryMutation ==
    ( /\ pc = "open"
      /\ backend = ":file:"
      /\ op.exc = "none"
      /\ \/ op.name \in {"set", "delete", "clear"}
         \/ op.name = "get" /\ ~Has(prev, op.key) ) =>
        file = Dump(data)

\* C6: contains(k) of a key whose path does not resolve returns false and
\* changes neither the document nor the file.
C6_ContainsMissIsPure ==
    (pc = "open" /\ op.name = "contains" /\ ~Resolves(prev, op.key)) =>
        /\ op.exc = "none"
        /\ op.ret = Bool(FALSE)
        /\ data = prev
        /\ file = prevFile

C6_Witness ==
    /\ pc = "open"
    /\ op.name = "contains"
    /\ HasDot(op.key)
    /\ BlockedPrefix(prev, op.key)
    /\ op.ret = Bool(FALSE)
    /\ prev # EmptyDict

\* A key that is in the document neither as a path nor as a top-level key.
NotPresent(d, key) == ~Resolves(d, key) /\ ~Has(d, key)

\* C7 as stated: get(k, default) of a key not present, a key below an
\* existing scalar or sequence included, returns default without raising,
\* and contains(k) is true afterwards.
C7_GetMissAlwaysStores ==
    (pc = "open" /\ op.name = "get" /\ NotPresent(prev, op.key)) =>
        /\ op.exc = "none"
        /\ op.ret = op.val
        /\ Contains(data, file, backend, op.key).ret = Bool(TRUE)

\* C7 as amended: get(k, default) of a key not present, no proper prefix of
\* which names an existing scalar or sequence, returns default without
\* raising, and contains(k) is true afterwards; when a proper prefix names an
\* existing scalar or sequence, get raises ValueError and the document is as
\* it was.
C7_GetMissStoresUnlessBlocked ==
    (pc = "open" /\ op.name = "get" /\ NotPresent(prev, op.key)) =>
        IF BlockedPrefix(prev, op.key)
        THEN op.exc = "ValueError" /\ data = prev
        ELSE /\ op.exc = "none"
             /\ op.ret = op.val
             /\ Contains(data, file, backend, op.key).ret = Bool(TRUE)

C7_Witness ==
    /\ Returned("get")
    /\ NotPresent(prev, op.key)
    /\ HasDot(op.key)
    /\ ~BlockedPrefix(prev, op.key)
    /\ op.ret = op.val
    /\ data # prev
    /\ Contains(data, file, backend, op.key).ret = Bool(TRUE)

\* C8: set(k, v) of a dotted key one of whose proper prefixes names an
\* existing scalar or sequence raises an error, and the document and the file
\* are as they were before the call.
C8_SetThroughNonMappingFails ==
    (pc = "open" /\ op.name = "set" /\ BlockedPrefix(prev, op.key)) =>
        /\ op.exc # "none"
        /\ data = prev
        /\ file = prevFile

C8_Witness ==
    /\ pc = "open"
    /\ op.name = "set"
    /\ BlockedPrefix(prev, op.key)
    /\ Len(PathOf(op.key)) = 3
    /\ op.exc = "ValueError"
    /\ data = prev

\* C9: keys() has one entry for each leaf of the tree, none for a key whose
\* value is a mapping, and none twice.
C9_KeysListsEachLeafOnce ==
    Returned("keys") =>
        /\ BagCardinality(op.ret.v) = LeafCount(data, DOMAIN data.v)
        /\ \A e \in BagToSet(op.ret.v) : CopiesIn(e, op.ret.v) = 1
        /\ \A k \in DOMAIN data.v : IsDict(Item(data, k)) => ~BagIn(k, op.ret.v)

\* C10: the constructor, given a valid backend and a directory that is there
\* or can be made: with initial data the document is the data and the file is
\* overwritten with it; with a file and no data the document is the file's
\* content and the file is unchanged; with neither the document is empty and
\* written; and the file equals the document in every case.
C10_ConstructionPolicy ==
    (op.name = "init" /\ backend \in {":file:", ":memory:"} /\ op.dir # "blocked") =>
        /\ pc = "open"
        /\ file = Dump(data)
        /\ op.val # None => data = op.val
        /\ (op.val = None /\ prevFile # NoFile) => file = prevFile
        /\ (op.val = None /\ prevFile = NoFile) => data = EmptyDict

-----------------------------------------------------------------------------
(* C11 to C19 *)

\* C11: with the memory backend no call changes the file: the constructor
\* writes nothing to it, and neither does any later set, get, delete, clear,
\* flush or close.
C11_MemoryNeverWritesTheFile ==
    (backend = ":memory:" /\ op.name # "none") => file = prevFile

\* C12: delete(key) returns normally for every document and every key: an
\* absent key, a missing parent, a parent that is a scalar or a sequence,
\* the empty key.
C12_DeleteNeverRaises ==
    (pc = "open" /\ op.name = "delete") => op.exc = "none"

C12_Witness ==
    /\ pc = "open"
    /\ op.name = "delete"
    /\ DeleteExc(prev, op.key) = "TypeError"
    /\ BlockedPrefix(prev, op.key)
    /\ op.exc = "none"

\* C13: after clear(), keys() returns an empty sequence, and with the file
\* backend the file holds the serialization of the empty document.
C13_ClearEmptiesDocumentAndFile ==
    Returned("clear") =>
        /\ Keys(data, file, backend).ret.v = EmptyBag
        /\ backend = ":file:" => file = Dump(EmptyDict)

C13_Witness ==
    /\ Returned("clear")
    /\ backend = ":file:"
    /\ prev # EmptyDict
    /\ prevFile # Dump(EmptyDict)
    /\ file = Dump(EmptyDict)
    /\ Keys(data, file, backend).ret.v = EmptyBag

\* C14: the empty key is rejected: set("", v) raises and leaves the document
\* as it was, and the indexed lookup of "" raises.
C14_EmptyKeyIsRejected ==
    (pc = "open" /\ op.key = <<>>) =>
        /\ op.name = "set" => (op.exc # "none" /\ data = prev)
        /\ op.name = "getitem" => op.exc # "none"

\* C15: the length operation returns the number of top-level keys of the
\* document.
C15_LenCountsTopLevelKeys ==
    Returned("len") => op.ret = Num(Cardinality(DOMAIN data.v))

\* The paths that resolve in the tree d.
RECURSIVE AllPaths(_)
AllPaths(d) ==
    IF ~IsDict(d)
    THEN {}
    ELSE UNION { {<<k>>} \cup { <<k>> \o p : p \in AllPaths(Item(d, k)) } : k \in DOMAIN d.v }

IsPrefix(p, q) == Len(p) <= Len(q) /\ SubSeq(q, 1, Len(p)) = p

\* The tree that holds v at path and nothing else.
RECURSIVE Nest(_, _)
Nest(path, v) == IF Len(path) = 0 THEN v ELSE Dict(path[1] :> Nest(Tail(path), v))

C17_IndexedRoundTrip ==
    (pc = "open" /\ op.name = "set" /\ ~BlockedPrefix(prev, op.key)) =>
        LET g == GetItem(data, file, backend, op.key)
        IN  /\ op.exc = "none"
            /\ g.exc = "none"
            /\ g.ret = RoundTrip(op.val)
            /\ ~IsStr(op.val) => g.ret = op.val

C17_Witness ==
    /\ Returned("set")
    /\ HasDot(op.key)
    /\ IsStr(op.val)
    /\ op.val.v = <<"T","r","u","e">>
    /\ GetItem(data, file, backend, op.key).ret = Bool(TRUE)

\* C18: on a miss, get(k, default) stores at k the value it returns: the
\* indexed lookup of k right after the call gives the value the call returned.
C18_GetMissStoresWhatItReturns ==
    (Returned("get") /\ NotPresent(prev, op.key)) =>
        LET g == GetItem(data, file, backend, op.key)
        IN  g.exc = "none" /\ g.ret = op.ret

\* C19: keys() has the entry "<parent key>.<leaf key>" for every leaf at depth
\* two or more, and lists every top-level leaf under its bare key and not
\* under the form with an empty parent.
C19_KeysQualification ==
    Returned("keys") =>
        /\ \A p \in AllPaths(data) :
              (Len(p) >= 2 /\ ~IsDict(ValueAt(data, p))) =>
                  BagIn(Qualify(p[Len(p) - 1], p[Len(p)]), op.ret.v)
        /\ \A k \in DOMAIN data.v :
              ~IsDict(Item(data, k)) =>
                  (BagIn(k, op.ret.v) /\ ~BagIn(Qualify(<<>>, k), op.ret.v))

====
